---- MODULE Spec2Model ----
(***************************************************************************)
(* Model of the record-management HTTP service of src/src/index.ts: the    *)
(* Hono route table, the zod schemas, the pagination helper, the error     *)
(* handler and one action per registered handler.  The relational store    *)
(* behind the Prisma client (three tables, their unique and foreign-key    *)
(* constraints) is not part of index.ts; it is modelled from sections 3    *)
(* and 6 of the specification.                                             *)
(*                                                                         *)
(* Strings that the code inspects (names, dates of birth, national ids,    *)
(* query parameters) are sequences of one-character strings, so that the   *)
(* length checks, the regular expression and Number() are computed.        *)
(* Identifiers and membership dates, which the code only passes through,   *)
(* are plain strings.                                                      *)
(***************************************************************************)
EXTENDS Integers, Sequences, FiniteSets

VARIABLES students, professors, memberships,
          nextStudent, nextProfessor, nextMembership,
          onDeleteProctor, onDeleteOwner,
          req, resp

store == <<students, professors, memberships>>
counters == <<nextStudent, nextProfessor, nextMembership>>
schema == <<onDeleteProctor, onDeleteOwner>>
vars == <<students, professors, memberships, nextStudent, nextProfessor,
          nextMembership, onDeleteProctor, onDeleteOwner, req, resp>>

(***************************************************************************)
(* Bounds of the model: how many records of each kind are ever created.    *)
(***************************************************************************)
MaxStudents == 2
MaxProfessors == 2
MaxMemberships == 2

NULL == "null"

StudentIdTable == <<"s1", "s2", "s3", "s4">>
ProfessorIdTable == <<"p1", "p2", "p3", "p4">>
MembershipIdTable == <<"m1", "m2", "m3", "m4">>

StudentIds == {StudentIdTable[i] : i \in 1..MaxStudents}
ProfessorIds == {ProfessorIdTable[i] : i \in 1..MaxProfessors}

(***************************************************************************)
(* Text values used in payloads.                                           *)
(***************************************************************************)
Digits == {"0", "1", "2", "3", "4", "5", "6", "7", "8", "9"}

NameAnn == <<"A", "n", "n">>
NameBob == <<"B", "o", "b">>
NameEmpty == <<>>
DobIso == <<"2", "0", "0", "1", "-", "0", "2", "-", "0", "3">>
DobSlash == <<"0", "3", "/", "0", "2", "/", "2", "0", "0", "1">>
AadharA == <<"1", "2", "3", "4", "5", "6", "7", "8", "9", "0", "1", "2">>
AadharB == <<"9", "8", "7", "6", "5", "4", "3", "2", "1", "0", "9", "8">>
AadharLetters == <<"A", "B", "C", "D", "E", "F", "G", "H", "I", "J", "K", "L">>
Aadhar13 == <<"1", "2", "3", "4", "5", "6", "7", "8", "9", "0", "1", "2", "3">>
AadharShort == <<"1">>

AllDigits(s) == \A i \in 1..Len(s) : s[i] \in Digits

(***************************************************************************)
(* studentSchema and professorSchema: z.object strips unknown keys, a      *)
(* missing key fails the parse.                                            *)
(***************************************************************************)
MatchesDateRegex(s) ==
    /\ Len(s) = 10
    /\ \A i \in {1, 2, 3, 4, 6, 7, 9, 10} : s[i] \in Digits
    /\ s[5] = "-"
    /\ s[8] = "-"

Seniorities == {"JUNIOR", "SENIOR", "ASSOCIATE", "HEAD"}

AadharRule(s) == Len(s) = 12

studentSchemaNoDob(body) ==
    IF /\ {"name", "dateOfBirth", "aadharNumber"} \subseteq DOMAIN body
       /\ Len(body.name) >= 1
       /\ AadharRule(body.aadharNumber)
    THEN [success |-> TRUE,
          data |-> [name |-> body.name, dateOfBirth |-> body.dateOfBirth,
                    aadharNumber |-> body.aadharNumber]]
    ELSE [success |-> FALSE, data |-> NULL]

studentSchema(body) ==
    IF /\ {"name", "dateOfBirth", "aadharNumber"} \subseteq DOMAIN body
       /\ Len(body.name) >= 1
       /\ MatchesDateRegex(body.dateOfBirth)
       /\ AadharRule(body.aadharNumber)
    THEN [success |-> TRUE,
          data |-> [name |-> body.name, dateOfBirth |-> body.dateOfBirth,
                    aadharNumber |-> body.aadharNumber]]
    ELSE [success |-> FALSE, data |-> NULL]

professorSchema(body) ==
    IF /\ {"name", "seniority", "aadharNumber"} \subseteq DOMAIN body
       /\ Len(body.name) >= 1
       /\ body.seniority \in Seniorities
       /\ AadharRule(body.aadharNumber)
    THEN [success |-> TRUE,
          data |-> [name |-> body.name, seniority |-> body.seniority,
                    aadharNumber |-> body.aadharNumber]]
    ELSE [success |-> FALSE, data |-> NULL]

(***************************************************************************)
(* handleErrors: every caught exception becomes a 500 with its message.    *)
(***************************************************************************)
handleErrorsSilent(message) == [status |-> 200, body |-> [error |-> message]]

handleErrors(message) == [status |-> 500, body |-> [error |-> message]]

(***************************************************************************)
(* Number(x) of JavaScript on the query strings used here: the empty       *)
(* string is 0, an optionally signed run of digits is its value, anything  *)
(* else (an omitted parameter included) is NaN.                            *)
(***************************************************************************)
DigitValue(c) == CHOOSE n \in 0..9 : <<"0", "1", "2", "3", "4", "5", "6", "7", "8", "9">>[n + 1] = c

RECURSIVE DecValue(_)
DecValue(s) == IF s = <<>> THEN 0
               ELSE 10 * DecValue(SubSeq(s, 1, Len(s) - 1)) + DigitValue(s[Len(s)])

NaN == [nan |-> TRUE, val |-> 0]

Number(query, key) ==
    IF key \notin DOMAIN query THEN NaN
    ELSE LET s == query[key] IN
         IF s = <<>> THEN [nan |-> FALSE, val |-> 0]
         ELSE LET signed == Head(s) \in {"-", "+"}
                  ds == IF signed THEN Tail(s) ELSE s
              IN IF ds = <<>> \/ ~AllDigits(ds) THEN NaN
                 ELSE [nan |-> FALSE,
                       val |-> IF Head(s) = "-" THEN 0 - DecValue(ds) ELSE DecValue(ds)]

\* x || d of JavaScript: NaN and 0 are falsy
OrDefault(x, d) == IF x.nan \/ x.val = 0 THEN d ELSE x.val

DefaultPage == 1
DefaultLimit == 10

paginate(query) ==
    LET page == OrDefault(Number(query, "page"), DefaultPage)
        limit == OrDefault(Number(query, "limit"), DefaultLimit)
    IN [skip |-> (page - 1) * limit, take |-> limit]

(***************************************************************************)
(* The relational store behind the Prisma client.  Tables are sequences in *)
(* insertion order.  A write that breaks a constraint throws and changes   *)
(* nothing; the result of a write is a record whose error field is NULL    *)
(* or the message of the exception.                                        *)
(***************************************************************************)
NullObject == [null |-> TRUE]

Range(seq) == {seq[i] : i \in 1..Len(seq)}

IdsOf(table) == {table[i].id : i \in 1..Len(table)}

RowById(table, id) == CHOOSE r \in Range(table) : r.id = id

RemoveById(table, id) == SelectSeq(table, LAMBDA r : r.id # id)

ReplaceRow(table, row) ==
    [i \in 1..Len(table) |-> IF table[i].id = row.id THEN row ELSE table[i]]

Pick(body, key, old) == IF key \in DOMAIN body THEN body[key] ELSE old

StudentColumns == {"name", "dateOfBirth", "aadharNumber", "proctorId"}
ProfessorColumns == {"name", "seniority", "aadharNumber"}
MembershipColumns == {"studentId", "issueDate", "expiryDate"}

ReferentialActionsOptional == {"Restrict", "SetNull", "Cascade"}
ReferentialActionsRequired == {"Restrict", "Cascade"}

Result(err, st, pr, ms, row) ==
    [error |-> err, students |-> st, professors |-> pr, memberships |-> ms, row |-> row]

Failed(message) == Result(message, students, professors, memberships, NullObject)

AadharTaken(table, aadhar, exceptId) ==
    \E r \in Range(table) : r.id # exceptId /\ r.aadharNumber = aadhar

ProctorExistsAlways(pid) == TRUE

ProctorExists(pid) == pid = NULL \/ pid \in IdsOf(professors)

\* prisma.student.create
studentCreate(data) ==
    IF AadharTaken(students, data.aadharNumber, NULL)
    THEN Failed("Unique constraint failed on the fields: (aadharNumber)")
    ELSE LET row == [id |-> StudentIdTable[nextStudent], name |-> data.name,
                     dateOfBirth |-> data.dateOfBirth,
                     aadharNumber |-> data.aadharNumber, proctorId |-> NULL]
         IN Result(NULL, Append(students, row), professors, memberships, row)

\* prisma.professor.create
professorCreate(data) ==
    IF AadharTaken(professors, data.aadharNumber, NULL)
    THEN Failed("Unique constraint failed on the fields: (aadharNumber)")
    ELSE LET row == [id |-> ProfessorIdTable[nextProfessor], name |-> data.name,
                     seniority |-> data.seniority,
                     aadharNumber |-> data.aadharNumber]
         IN Result(NULL, students, Append(professors, row), memberships, row)

\* prisma.student.update
studentUpdate(id, data) ==
    IF ~(DOMAIN data \subseteq StudentColumns)
    THEN Failed("Unknown argument")
    ELSE IF id \notin IdsOf(students)
    THEN Failed("Record to update not found.")
    ELSE LET old == RowById(students, id)
             row == [id |-> id,
                     name |-> Pick(data, "name", old.name),
                     dateOfBirth |-> Pick(data, "dateOfBirth", old.dateOfBirth),
                     aadharNumber |-> Pick(data, "aadharNumber", old.aadharNumber),
                     proctorId |-> Pick(data, "proctorId", old.proctorId)]
         IN IF AadharTaken(students, row.aadharNumber, id)
            THEN Failed("Unique constraint failed on the fields: (aadharNumber)")
            ELSE IF ~ProctorExists(row.proctorId)
            THEN Failed("Foreign key constraint failed on the field: proctorId")
            ELSE Result(NULL, ReplaceRow(students, row), professors, memberships, row)

\* prisma.professor.update
professorUpdate(id, data) ==
    IF ~(DOMAIN data \subseteq ProfessorColumns)
    THEN Failed("Unknown argument")
    ELSE IF id \notin IdsOf(professors)
    THEN Failed("Record to update not found.")
    ELSE LET old == RowById(professors, id)
             row == [id |-> id,
                     name |-> Pick(data, "name", old.name),
                     seniority |-> Pick(data, "seniority", old.seniority),
                     aadharNumber |-> Pick(data, "aadharNumber", old.aadharNumber)]
         IN IF AadharTaken(professors, row.aadharNumber, id)
            THEN Failed("Unique constraint failed on the fields: (aadharNumber)")
            ELSE Result(NULL, students, ReplaceRow(professors, row), memberships, row)

OwnedBy(sids) == {m \in Range(memberships) : m.studentId \in sids}

\* the students in sids leave the store, with what the schema says of their memberships
RemoveStudents(sids, pr) ==
    IF OwnedBy(sids) # {} /\ onDeleteOwner = "Restrict"
    THEN Failed("Foreign key constraint failed on the field: studentId")
    ELSE Result(NULL,
                SelectSeq(students, LAMBDA s : s.id \notin sids),
                pr,
                SelectSeq(memberships, LAMBDA m : m.studentId \notin sids),
                NullObject)

\* prisma.student.delete
studentDelete(id) ==
    IF id \notin IdsOf(students)
    THEN Failed("Record to delete does not exist.")
    ELSE RemoveStudents({id}, professors)

\* prisma.professor.delete
professorDelete(id) ==
    IF id \notin IdsOf(professors)
    THEN Failed("Record to delete does not exist.")
    ELSE LET proctored == {s \in Range(students) : s.proctorId = id}
             rest == RemoveById(professors, id)
         IN IF proctored = {} THEN Result(NULL, students, rest, memberships, NullObject)
            ELSE IF onDeleteProctor = "Restrict"
            THEN Failed("Foreign key constraint failed on the field: proctorId")
            ELSE IF onDeleteProctor = "SetNull"
            THEN Result(NULL,
                        [i \in 1..Len(students) |->
                            IF students[i].proctorId = id
                            THEN [students[i] EXCEPT !.proctorId = NULL]
                            ELSE students[i]],
                        rest, memberships, NullObject)
            ELSE RemoveStudents({s.id : s \in proctored}, rest)

MembershipOf(sid) == {m \in Range(memberships) : m.studentId = sid}

OwnerTakenNever(sid, exceptId) == FALSE

OwnerTaken(sid, exceptId) ==
    \E m \in Range(memberships) : m.id # exceptId /\ m.studentId = sid

\* prisma.libraryMembership.findUnique({ where: { studentId } })
membershipFindUnique(sid) ==
    IF MembershipOf(sid) = {} THEN NullObject
    ELSE CHOOSE m \in MembershipOf(sid) : TRUE

\* prisma.libraryMembership.create
membershipCreate(data) ==
    IF data.issueDate = NULL \/ data.expiryDate = NULL
    THEN Failed("Argument missing")
    ELSE IF OwnerTaken(data.studentId, NULL)
    THEN Failed("Unique constraint failed on the fields: (studentId)")
    ELSE IF data.studentId \notin IdsOf(students)
    THEN Failed("Foreign key constraint failed on the field: studentId")
    ELSE LET row == [id |-> MembershipIdTable[nextMembership],
                     studentId |-> data.studentId,
                     issueDate |-> data.issueDate, expiryDate |-> data.expiryDate]
         IN Result(NULL, students, professors, Append(memberships, row), row)

\* prisma.libraryMembership.update({ where: { studentId }, data })
membershipUpdate(sid, data) ==
    IF ~(DOMAIN data \subseteq MembershipColumns)
    THEN Failed("Unknown argument")
    ELSE IF MembershipOf(sid) = {}
    THEN Failed("Record to update not found.")
    ELSE LET old == membershipFindUnique(sid)
             row == [id |-> old.id,
                     studentId |-> Pick(data, "studentId", old.studentId),
                     issueDate |-> Pick(data, "issueDate", old.issueDate),
                     expiryDate |-> Pick(data, "expiryDate", old.expiryDate)]
         IN IF OwnerTaken(row.studentId, old.id)
            THEN Failed("Unique constraint failed on the fields: (studentId)")
            ELSE IF row.studentId \notin IdsOf(students)
            THEN Failed("Foreign key constraint failed on the field: studentId")
            ELSE Result(NULL, students, professors, ReplaceRow(memberships, row), row)

\* prisma.libraryMembership.delete({ where: { studentId } })
membershipDelete(sid) ==
    IF MembershipOf(sid) = {}
    THEN Failed("Record to delete does not exist.")
    ELSE Result(NULL, students, professors,
                SelectSeq(memberships, LAMBDA m : m.studentId # sid), NullObject)

Min(a, b) == IF a < b THEN a ELSE b
Max(a, b) == IF a > b THEN a ELSE b

\* findMany({ skip, take }): a negative skip throws, a negative take counts from the end
findManyThrows(skip, take) == skip < 0

findMany(table, skip, take) ==
    IF take >= 0
    THEN SubSeq(table, skip + 1, Min(Len(table), skip + take))
    ELSE SubSeq(table, Max(1, Len(table) - skip + take + 1), Len(table) - skip)

WithProctorOmitted(s) ==
    [id |-> s.id, name |-> s.name, dateOfBirth |-> s.dateOfBirth,
     aadharNumber |-> s.aadharNumber, proctorId |-> s.proctorId,
     proctor |-> NullObject]

\* include: { proctor: true }
WithProctor(s) ==
    [id |-> s.id, name |-> s.name, dateOfBirth |-> s.dateOfBirth,
     aadharNumber |-> s.aadharNumber, proctorId |-> s.proctorId,
     proctor |-> IF s.proctorId \in IdsOf(professors)
                 THEN RowById(professors, s.proctorId)
                 ELSE NullObject]

(***************************************************************************)
(* The router.  Routes are the (method, path) pairs index.ts registers; a  *)
(* request that matches none of them gets Hono's default 404.              *)
(***************************************************************************)
Routes ==
    { <<"GET", "/students">>,
      <<"GET", "/students/enriched">>,
      <<"POST", "/students">>,
      <<"POST", "/professors">>,
      <<"PATCH", "/students/:studentId">>,
      <<"PATCH", "/professors/:professorId">>,
      <<"DELETE", "/students/:studentId">>,
      <<"DELETE", "/professors/:professorId">>,
      <<"POST", "/professors/:professorId/proctorships">>,
      <<"GET", "/students/:studentId/library-membership">>,
      <<"POST", "/students/:studentId/library-membership">>,
      <<"PATCH", "/students/:studentId/library-membership">>,
      <<"DELETE", "/students/:studentId/library-membership">> }

\* requests of the documented interface that carry an id but no payload
OtherRequests ==
    { <<"GET", "/professors">>,
      <<"GET", "/professors/:professorId/proctorships">>,
      <<"GET", "/students/:studentId">>,
      <<"GET", "/professors/:professorId">> }

NoBody == <<>>
NoQuery == <<>>

Request(method, path, id, body, query) ==
    [method |-> method, path |-> path, id |-> id, body |-> body, query |-> query]

Json(status, body) == [status |-> status, body |-> body]

notFound == [status |-> 404, body |-> [text |-> "404 Not Found"]]

(***************************************************************************)
(* Payloads and queries the callers send.                                  *)
(***************************************************************************)
StudentPayloads ==
    << [name |-> NameAnn, dateOfBirth |-> DobIso, aadharNumber |-> AadharA],
       [name |-> NameAnn, dateOfBirth |-> DobIso, aadharNumber |-> AadharLetters],
       [name |-> NameEmpty, dateOfBirth |-> DobIso, aadharNumber |-> AadharB],
       [name |-> NameAnn, dateOfBirth |-> DobSlash, aadharNumber |-> AadharB],
       [name |-> NameAnn, dateOfBirth |-> DobIso, aadharNumber |-> Aadhar13],
       [name |-> NameAnn, dateOfBirth |-> DobIso] >>

ProfessorPayloads ==
    << [name |-> NameAnn, seniority |-> "JUNIOR", aadharNumber |-> AadharA],
       [name |-> NameAnn, seniority |-> "HEAD", aadharNumber |-> AadharB],
       [name |-> NameAnn, seniority |-> "LEAD", aadharNumber |-> AadharB],
       [name |-> NameEmpty, seniority |-> "HEAD", aadharNumber |-> AadharB],
       [name |-> NameAnn, seniority |-> "HEAD", aadharNumber |-> Aadhar13] >>

StudentPatches ==
    << [aadharNumber |-> AadharShort],
       [aadharNumber |-> AadharA],
       [proctorId |-> ProfessorIdTable[1]],
       [grade |-> NameBob],
       <<>> >>

ProfessorPatches ==
    << [seniority |-> "LEAD"],
       [aadharNumber |-> AadharA],
       [grade |-> NameBob] >>

ProctorshipPayloads ==
    << [studentId |-> StudentIdTable[1]], [studentId |-> StudentIdTable[2]], <<>> >>

MembershipPayloads ==
    << [issueDate |-> "2024-01-01", expiryDate |-> "2025-01-01"],
       [issueDate |-> "2024-01-01"] >>

MembershipPatches ==
    << [expiryDate |-> "2026-01-01"],
       [studentId |-> StudentIdTable[1]],
       [studentId |-> StudentIdTable[2]],
       [fine |-> "1"] >>

Queries ==
    << <<>>,
       [page |-> <<"2">>, limit |-> <<"1">>],
       [page |-> <<"1">>, limit |-> <<"0">>],
       [page |-> <<"-", "1">>, limit |-> <<"1">>],
       [page |-> <<"0">>, limit |-> <<"2">>],
       [page |-> <<"x">>],
       [limit |-> <<"-", "1">>] >>

(***************************************************************************)
(* The handlers.                                                           *)
(***************************************************************************)
Commit(r) ==
    /\ students' = r.students
    /\ professors' = r.professors
    /\ memberships' = r.memberships

\* GET /students
ListStudents ==
    \E i \in 1..Len(Queries) :
        LET page == paginate(Queries[i]) IN
        /\ <<"GET", "/students">> \in Routes
        /\ req' = Request("GET", "/students", NULL, NoBody, Queries[i])
        /\ resp' = IF findManyThrows(page.skip, page.take)
                   THEN handleErrors("Invalid value for skip argument")
                   ELSE Json(200, findMany(students, page.skip, page.take))
        /\ UNCHANGED <<store, counters, schema>>

\* GET /students/enriched
ListStudentsEnriched ==
    \E i \in 1..Len(Queries) :
        LET page == paginate(Queries[i]) IN
        /\ <<"GET", "/students/enriched">> \in Routes
        /\ req' = Request("GET", "/students/enriched", NULL, NoBody, Queries[i])
        /\ resp' = IF findManyThrows(page.skip, page.take)
                   THEN handleErrors("Invalid value for skip argument")
                   ELSE LET rows == findMany(students, page.skip, page.take)
                        IN Json(200, [k \in 1..Len(rows) |-> WithProctor(rows[k])])
        /\ UNCHANGED <<store, counters, schema>>

\* POST /students
CreateStudent ==
    \E i \in 1..Len(StudentPayloads) :
        LET body == StudentPayloads[i]
            parsed == studentSchema(body)
        IN
        /\ <<"POST", "/students">> \in Routes
        /\ nextStudent <= MaxStudents
        /\ req' = Request("POST", "/students", NULL, body, NoQuery)
        /\ IF ~parsed.success
           THEN /\ resp' = Json(400, [error |-> "validation"])
                /\ UNCHANGED <<store, counters>>
           ELSE LET r == studentCreate(parsed.data) IN
                IF r.error # NULL
                THEN /\ resp' = handleErrors(r.error)
                     /\ UNCHANGED <<store, counters>>
                ELSE /\ Commit(r)
                     /\ nextStudent' = nextStudent + 1
                     /\ resp' = Json(201, r.row)
                     /\ UNCHANGED <<nextProfessor, nextMembership>>
        /\ UNCHANGED schema

\* POST /professors
CreateProfessor ==
    \E i \in 1..Len(ProfessorPayloads) :
        LET body == ProfessorPayloads[i]
            parsed == professorSchema(body)
        IN
        /\ <<"POST", "/professors">> \in Routes
        /\ nextProfessor <= MaxProfessors
        /\ req' = Request("POST", "/professors", NULL, body, NoQuery)
        /\ IF ~parsed.success
           THEN /\ resp' = Json(400, [error |-> "validation"])
                /\ UNCHANGED <<store, counters>>
           ELSE LET r == professorCreate(parsed.data) IN
                IF r.error # NULL
                THEN /\ resp' = handleErrors(r.error)
                     /\ UNCHANGED <<store, counters>>
                ELSE /\ Commit(r)
                     /\ nextProfessor' = nextProfessor + 1
                     /\ resp' = Json(201, r.row)
                     /\ UNCHANGED <<nextStudent, nextMembership>>
        /\ UNCHANGED schema

\* a write through the client that adds no record: the result or the caught exception
Write(r, okStatus, okBody) ==
    /\ IF r.error # NULL
       THEN resp' = handleErrors(r.error) /\ UNCHANGED store
       ELSE resp' = Json(okStatus, okBody) /\ Commit(r)
    /\ UNCHANGED <<counters, schema>>

UpdateStudentValidated ==
    \E id \in StudentIds, i \in 1..Len(StudentPatches) :
        LET body == StudentPatches[i]
            r == studentUpdate(id, body)
        IN
        /\ req' = Request("PATCH", "/students/:studentId", id, body, NoQuery)
        /\ IF "aadharNumber" \in DOMAIN body /\ ~AadharRule(body.aadharNumber)
           THEN /\ resp' = Json(400, [error |-> "validation"])
                /\ UNCHANGED <<store, counters, schema>>
           ELSE Write(r, 200, r.row)

\* PATCH /students/:studentId
UpdateStudent ==
    \E id \in StudentIds, i \in 1..Len(StudentPatches) :
        LET r == studentUpdate(id, StudentPatches[i]) IN
        /\ <<"PATCH", "/students/:studentId">> \in Routes
        /\ req' = Request("PATCH", "/students/:studentId", id, StudentPatches[i], NoQuery)
        /\ Write(r, 200, r.row)

\* PATCH /professors/:professorId
UpdateProfessor ==
    \E id \in ProfessorIds, i \in 1..Len(ProfessorPatches) :
        LET r == professorUpdate(id, ProfessorPatches[i]) IN
        /\ <<"PATCH", "/professors/:professorId">> \in Routes
        /\ req' = Request("PATCH", "/professors/:professorId", id, ProfessorPatches[i], NoQuery)
        /\ Write(r, 200, r.row)

DeleteStudentMany ==
    \E id \in StudentIds :
        LET r == studentDelete(id) IN
        /\ req' = Request("DELETE", "/students/:studentId", id, NoBody, NoQuery)
        /\ IF id \notin IdsOf(students)
           THEN /\ resp' = Json(200, [message |-> "Student deleted"])
                /\ UNCHANGED <<store, counters, schema>>
           ELSE Write(r, 200, [message |-> "Student deleted"])

\* DELETE /students/:studentId
DeleteStudent ==
    \E id \in StudentIds :
        /\ <<"DELETE", "/students/:studentId">> \in Routes
        /\ req' = Request("DELETE", "/students/:studentId", id, NoBody, NoQuery)
        /\ Write(studentDelete(id), 200, [message |-> "Student deleted"])

\* DELETE /professors/:professorId
DeleteProfessor ==
    \E id \in ProfessorIds :
        /\ <<"DELETE", "/professors/:professorId">> \in Routes
        /\ req' = Request("DELETE", "/professors/:professorId", id, NoBody, NoQuery)
        /\ Write(professorDelete(id), 200, [message |-> "Professor deleted"])

\* POST /professors/:professorId/proctorships
AssignProctorship ==
    \E id \in ProfessorIds, i \in 1..Len(ProctorshipPayloads) :
        LET body == ProctorshipPayloads[i]
            studentId == Pick(body, "studentId", NULL)
            r == studentUpdate(studentId, [proctorId |-> id])
        IN
        /\ <<"POST", "/professors/:professorId/proctorships">> \in Routes
        /\ req' = Request("POST", "/professors/:professorId/proctorships", id, body, NoQuery)
        /\ Write(r, 200, r.row)

\* GET /students/:studentId/library-membership
GetMembershipSilent ==
    \E id \in StudentIds :
        LET membership == membershipFindUnique(id) IN
        /\ req' = Request("GET", "/students/:studentId/library-membership", id, NoBody, NoQuery)
        /\ resp' = Json(200, membership)
        /\ UNCHANGED <<store, counters, schema>>

GetMembership ==
    \E id \in StudentIds :
        LET membership == membershipFindUnique(id) IN
        /\ <<"GET", "/students/:studentId/library-membership">> \in Routes
        /\ req' = Request("GET", "/students/:studentId/library-membership", id, NoBody, NoQuery)
        /\ resp' = IF membership = NullObject
                   THEN Json(404, [error |-> "Not found"])
                   ELSE Json(200, membership)
        /\ UNCHANGED <<store, counters, schema>>

\* POST /students/:studentId/library-membership
CreateMembership ==
    \E id \in StudentIds, i \in 1..Len(MembershipPayloads) :
        LET body == MembershipPayloads[i]
            r == membershipCreate([studentId |-> id,
                                   issueDate |-> Pick(body, "issueDate", NULL),
                                   expiryDate |-> Pick(body, "expiryDate", NULL)])
        IN
        /\ <<"POST", "/students/:studentId/library-membership">> \in Routes
        /\ nextMembership <= MaxMemberships
        /\ req' = Request("POST", "/students/:studentId/library-membership", id, body, NoQuery)
        /\ IF r.error # NULL
           THEN /\ resp' = handleErrors(r.error)
                /\ UNCHANGED <<store, counters>>
           ELSE /\ Commit(r)
                /\ nextMembership' = nextMembership + 1
                /\ resp' = Json(201, r.row)
                /\ UNCHANGED <<nextStudent, nextProfessor>>
        /\ UNCHANGED schema

\* PATCH /students/:studentId/library-membership
UpdateMembership ==
    \E id \in StudentIds, i \in 1..Len(MembershipPatches) :
        LET r == membershipUpdate(id, MembershipPatches[i]) IN
        /\ <<"PATCH", "/students/:studentId/library-membership">> \in Routes
        /\ req' = Request("PATCH", "/students/:studentId/library-membership", id,
                          MembershipPatches[i], NoQuery)
        /\ Write(r, 200, r.row)

\* DELETE /students/:studentId/library-membership
DeleteMembership ==
    \E id \in StudentIds :
        /\ <<"DELETE", "/students/:studentId/library-membership">> \in Routes
        /\ req' = Request("DELETE", "/students/:studentId/library-membership", id, NoBody, NoQuery)
        /\ Write(membershipDelete(id), 200, [message |-> "Library membership deleted"])

\* a request no registered route matches
Unrouted ==
    \E k \in OtherRequests, id \in ProfessorIds :
        /\ k \notin Routes
        /\ req' = Request(k[1], k[2], id, NoBody, NoQuery)
        /\ resp' = notFound
        /\ UNCHANGED <<store, counters, schema>>

(***************************************************************************)
(* The state after construction: empty tables; the referential actions of  *)
(* the schema are fixed but not known from index.ts.                       *)
(***************************************************************************)
Init ==
    /\ students = <<>>
    /\ professors = <<>>
    /\ memberships = <<>>
    /\ nextStudent = 1
    /\ nextProfessor = 1
    /\ nextMembership = 1
    /\ onDeleteProctor \in ReferentialActionsOptional
    /\ onDeleteOwner \in ReferentialActionsRequired
    /\ req = Request("NONE", "NONE", NULL, NoBody, NoQuery)
    /\ resp = Json(0, [text |-> "NONE"])

\* where no membership is ever created its foreign key plays no part
InitPeople == Init /\ onDeleteOwner = "Restrict"

\* where no professor is ever created the proctor foreign key plays no part
InitLibrary == Init /\ onDeleteProctor = "Restrict"

(***************************************************************************)
(* Next is every request a caller can send.  The specifications below      *)
(* restrict the callers to the requests of one part of the interface.      *)
(***************************************************************************)
Next ==
    \/ ListStudents
    \/ ListStudentsEnriched
    \/ CreateStudent
    \/ CreateProfessor
    \/ UpdateStudent
    \/ UpdateProfessor
    \/ DeleteStudent
    \/ DeleteProfessor
    \/ AssignProctorship
    \/ GetMembership
    \/ CreateMembership
    \/ UpdateMembership
    \/ DeleteMembership
    \/ Unrouted

Spec == Init /\ [][Next]_vars

\* creation requests and requests for the routes index.ts does not register
NextCreate ==
    \/ CreateStudent
    \/ CreateProfessor
    \/ Unrouted

SpecCreate == InitPeople /\ [][NextCreate]_vars

\* creation and partial update of students and professors
NextUpdate ==
    \/ CreateStudent
    \/ CreateProfessor
    \/ UpdateStudent
    \/ UpdateProfessor

SpecUpdate == InitPeople /\ [][NextUpdate]_vars

\* every request that writes a proctor reference or removes a record it involves
NextProctor ==
    \/ CreateStudent
    \/ CreateProfessor
    \/ UpdateStudent
    \/ AssignProctorship
    \/ DeleteStudent
    \/ DeleteProfessor

SpecProctor == InitPeople /\ [][NextProctor]_vars

\* the two student lists over a store of students with proctors
NextLists ==
    \/ CreateStudent
    \/ CreateProfessor
    \/ AssignProctorship
    \/ DeleteProfessor
    \/ ListStudents
    \/ ListStudentsEnriched

SpecLists == InitPeople /\ [][NextLists]_vars

\* library memberships and their owners
NextLibrary ==
    \/ CreateStudent
    \/ DeleteStudent
    \/ GetMembership
    \/ CreateMembership
    \/ UpdateMembership
    \/ DeleteMembership

SpecLibrary == InitLibrary /\ [][NextLibrary]_vars

\* deletes of records that other records may reference
NextDelete ==
    \/ CreateStudent
    \/ CreateProfessor
    \/ AssignProctorship
    \/ CreateMembership
    \/ DeleteStudent
    \/ DeleteProfessor

SpecDelete == Init /\ [][NextDelete]_vars

(***************************************************************************)
(* Properties.  Sent(m, p) says that the last request was method m on path *)
(* p; resp is then the answer to it and the tables are the store after it. *)
(***************************************************************************)
Sent(method, path) == req.method = method /\ req.path = path

IsError(r) == r.status >= 400 /\ "error" \in DOMAIN r.body

\* the rules of section 4.1, written from the specification
IsYmd(s) ==
    /\ Len(s) = 10
    /\ s[5] = "-" /\ s[8] = "-"
    /\ AllDigits(SubSeq(s, 1, 4)) /\ AllDigits(SubSeq(s, 6, 7)) /\ AllDigits(SubSeq(s, 9, 10))

StudentRulesHold(body) ==
    /\ {"name", "dateOfBirth", "aadharNumber"} \subseteq DOMAIN body
    /\ body.name # <<>>
    /\ IsYmd(body.dateOfBirth)
    /\ Len(body.aadharNumber) = 12

ProfessorRulesHold(body) ==
    /\ {"name", "seniority", "aadharNumber"} \subseteq DOMAIN body
    /\ body.name # <<>>
    /\ body.seniority \in {"JUNIOR", "SENIOR", "ASSOCIATE", "HEAD"}
    /\ Len(body.aadharNumber) = 12

StudentCreated(body) ==
    /\ resp'.status = 201
    /\ students' = Append(students, resp'.body)
    /\ resp'.body.id \notin IdsOf(students)
    /\ resp'.body.name = body.name
    /\ resp'.body.dateOfBirth = body.dateOfBirth
    /\ resp'.body.aadharNumber = body.aadharNumber
    /\ professors' = professors /\ memberships' = memberships

ProfessorCreated(body) ==
    /\ resp'.status = 201
    /\ professors' = Append(professors, resp'.body)
    /\ resp'.body.id \notin IdsOf(professors)
    /\ resp'.body.name = body.name
    /\ resp'.body.seniority = body.seniority
    /\ resp'.body.aadharNumber = body.aadharNumber
    /\ students' = students /\ memberships' = memberships

C1_OriginalStep ==
    /\ Sent("POST", "/students")' =>
          IF StudentRulesHold(req'.body) THEN StudentCreated(req'.body)
          ELSE resp'.status = 400 /\ store' = store
    /\ Sent("POST", "/professors")' =>
          IF ProfessorRulesHold(req'.body) THEN ProfessorCreated(req'.body)
          ELSE resp'.status = 400 /\ store' = store

\* C1 as stated: an invalid creation payload is answered 400 and adds nothing,
\* every valid one is persisted and answered 201 with the created record.
C1_Original == [][C1_OriginalStep]_vars

C1_AmendedStep ==
    /\ Sent("POST", "/students")' =>
          IF ~StudentRulesHold(req'.body) THEN resp'.status = 400 /\ store' = store
          ELSE IF \E s \in Range(students) : s.aadharNumber = req'.body.aadharNumber
          THEN resp'.status = 500 /\ IsError(resp') /\ store' = store
          ELSE StudentCreated(req'.body)
    /\ Sent("POST", "/professors")' =>
          IF ~ProfessorRulesHold(req'.body) THEN resp'.status = 400 /\ store' = store
          ELSE IF \E q \in Range(professors) : q.aadharNumber = req'.body.aadharNumber
          THEN resp'.status = 500 /\ IsError(resp') /\ store' = store
          ELSE ProfessorCreated(req'.body)

\* C1 (amended): an invalid creation payload is answered 400 and adds nothing; a
\* valid one whose national id no stored record of that kind has is persisted and
\* answered 201 with the created record; a valid one whose national id is taken is
\* answered 500 and adds nothing.
C1_Amended == [][C1_AmendedStep]_vars

C1_Witness ==
    /\ Sent("POST", "/professors")
    /\ ProfessorRulesHold(req.body)
    /\ resp.status = 500
    /\ Len(professors) = 1

\* C2: GET /students with page=p and limit=l (defaults 1 and 10) is answered 200
\* with at most l records, those after the first (p-1)*l of the store, for every
\* page and limit a caller can send.
C2_Claim ==
    Sent("GET", "/students") =>
        LET p == IF "page" \in DOMAIN req.query THEN Number(req.query, "page") ELSE [nan |-> FALSE, val |-> 1]
            l == IF "limit" \in DOMAIN req.query THEN Number(req.query, "limit") ELSE [nan |-> FALSE, val |-> 10]
        IN /\ resp.status = 200
           /\ (~p.nan /\ ~l.nan) =>
                 /\ Len(resp.body) <= l.val
                 /\ (p.val >= 1 /\ l.val >= 0) =>
                       resp.body = SubSeq(students, (p.val - 1) * l.val + 1,
                                          Min(Len(students), p.val * l.val))

C3_AtMostOne ==
    \A i, j \in 1..Len(memberships) :
        memberships[i].studentId = memberships[j].studentId => i = j

C3_Step ==
    /\ (Sent("POST", "/students/:studentId/library-membership")' /\ MembershipOf(req'.id) # {}) =>
          resp'.status = 500 /\ IsError(resp') /\ memberships' = memberships
    /\ Sent("PATCH", "/students/:studentId/library-membership")' => C3_AtMostOne'

\* C3: every student has at most one library membership in every reachable state;
\* creating a second one is answered 500 and leaves the memberships as they were;
\* no membership update leaves two memberships with one owner.
C3_OneMembership == [][C3_AtMostOne' /\ C3_Step]_vars

C3_Witness ==
    /\ Sent("POST", "/students/:studentId/library-membership")
    /\ {"issueDate", "expiryDate"} \subseteq DOMAIN req.body
    /\ MembershipOf(req.id) # {}
    /\ resp.status = 500
    /\ Len(memberships) = 1
    /\ Len(students) = 2

Referenced(pid) == \E s \in Range(students) : s.proctorId = pid

StudentRemoved(id) ==
    /\ resp'.status = 200
    /\ resp'.body = [message |-> "Student deleted"]
    /\ students' = RemoveById(students, id)
    /\ professors' = professors /\ memberships' = memberships

ProfessorRemoved(id) ==
    /\ resp'.status = 200
    /\ resp'.body = [message |-> "Professor deleted"]
    /\ professors' = RemoveById(professors, id)
    /\ students' = students /\ memberships' = memberships

Refused == resp'.status # 200 /\ IsError(resp') /\ store' = store

C4_OriginalStep ==
    /\ Sent("DELETE", "/students/:studentId")' =>
          IF req'.id \in IdsOf(students) THEN StudentRemoved(req'.id) ELSE Refused
    /\ Sent("DELETE", "/professors/:professorId")' =>
          IF req'.id \in IdsOf(professors) THEN ProfessorRemoved(req'.id) ELSE Refused

\* C4 as stated: deleting an id that is not stored is answered with an error and
\* changes nothing; deleting a stored id removes exactly that record, answer 200.
C4_Original == [][C4_OriginalStep]_vars

C4_AmendedStep ==
    /\ Sent("DELETE", "/students/:studentId")' =>
          IF req'.id \notin IdsOf(students) THEN Refused
          ELSE MembershipOf(req'.id) = {} => StudentRemoved(req'.id)
    /\ Sent("DELETE", "/professors/:professorId")' =>
          IF req'.id \notin IdsOf(professors) THEN Refused
          ELSE ~Referenced(req'.id) => ProfessorRemoved(req'.id)

\* C4 (amended): deleting an id that is not stored is answered with an error, never
\* 200, and changes nothing; deleting a stored Student that owns no membership, or a
\* stored Professor that no Student has as proctor, removes exactly that record and
\* is answered 200 with the confirmation message.
C4_Amended == [][C4_AmendedStep]_vars

C4_Witness ==
    /\ Sent("DELETE", "/students/:studentId")
    /\ req.id \notin IdsOf(students)
    /\ resp.status = 500
    /\ nextStudent = 2
    /\ students # <<>>

C5_Step ==
    /\ (Sent("POST", "/professors/:professorId/proctorships")' /\ resp'.status = 200) =>
          /\ "studentId" \in DOMAIN req'.body
          /\ req'.body.studentId \in IdsOf(students')
          /\ RowById(students', req'.body.studentId).proctorId = req'.id
          /\ resp'.body = RowById(students', req'.body.studentId)
          /\ req'.id \in IdsOf(professors')
    /\ (Sent("GET", "/students/enriched")' /\ resp'.status = 200) =>
          \A k \in 1..Len(resp'.body) :
              LET item == resp'.body[k] IN
              /\ item.id \in IdsOf(students)
              /\ item.proctorId = RowById(students, item.id).proctorId
              /\ IF item.proctorId = NULL THEN item.proctor = NullObject
                 ELSE /\ item.proctorId \in IdsOf(professors)
                      /\ item.proctor = RowById(professors, item.proctorId)

\* a list or a creation leaves every stored record as it was
C5_Frame ==
    req'.path \in {"/students", "/students/enriched", "/professors"} =>
        /\ \A i \in 1..Len(students) : students'[i] = students[i]
        /\ \A i \in 1..Len(professors) : professors'[i] = professors[i]

\* C5: a successful proctorship assignment of Professor P to Student S leaves S
\* with proctor reference P, and an enriched list shows every listed Student with
\* the stored Professor its proctor reference names, or null when it has none;
\* lists and creations in between change no stored record.
C5_Proctorship == [][C5_Step /\ C5_Frame]_vars

C5_Witness ==
    /\ Sent("GET", "/students/enriched")
    /\ resp.status = 200
    /\ Len(resp.body) = 2
    /\ resp.body[1].proctor = NullObject
    /\ resp.body[2].proctor # NullObject

C6_Step ==
    Sent("GET", "/students/:studentId/library-membership")' =>
        /\ store' = store
        /\ IF MembershipOf(req'.id) = {}
           THEN resp'.status = 404 /\ IsError(resp')
           ELSE resp'.status = 200 /\ resp'.body \in MembershipOf(req'.id)

\* C6: Get Library Membership of S is answered 404 with an error body exactly when
\* the store holds no membership owned by S, 200 with that membership otherwise,
\* and never changes the store.
C6_GetMembership == [][C6_Step]_vars

C6_Witness ==
    /\ Sent("GET", "/students/:studentId/library-membership")
    /\ resp.status = 404
    /\ req.id \in IdsOf(students)
    /\ nextMembership > 1
    /\ MembershipOf(req.id) = {}

\* C7: every stored Student and every stored Professor has a national id of
\* exactly 12 digits.
C7_Claim ==
    /\ \A s \in Range(students) : Len(s.aadharNumber) = 12 /\ AllDigits(s.aadharNumber)
    /\ \A q \in Range(professors) : Len(q.aadharNumber) = 12 /\ AllDigits(q.aadharNumber)

\* C8: the proctor reference of every stored Student is absent or the id of a
\* stored Professor.
C8_ProctorStored ==
    \A s \in Range(students) : s.proctorId = NULL \/ s.proctorId \in IdsOf(professors)

C8_Witness ==
    /\ Sent("POST", "/professors/:professorId/proctorships")
    /\ req.id \notin IdsOf(professors)
    /\ "studentId" \in DOMAIN req.body
    /\ req.body.studentId \in IdsOf(students)
    /\ resp.status = 500
    /\ \E s \in Range(students) : s.proctorId # NULL

\* C9: GET /professors is answered 200 with all stored Professors, and
\* GET /professors/:id/proctorships 200 with the Students whose proctor is :id.
C9_Claim ==
    /\ Sent("GET", "/professors") => resp.status = 200 /\ resp.body = professors
    /\ Sent("GET", "/professors/:professorId/proctorships") =>
          /\ resp.status = 200
          /\ resp.body = SelectSeq(students, LAMBDA s : s.proctorId = req.id)

Patched(old, body) ==
    [f \in DOMAIN old |-> IF f \in DOMAIN body THEN body[f] ELSE old[f]]

Updated(table, tableAfter, id, body) ==
    /\ resp'.status = 200
    /\ resp'.body = Patched(RowById(table, id), body)
    /\ Len(tableAfter) = Len(table)
    /\ \A i \in 1..Len(table) :
          tableAfter[i] = IF table[i].id = id THEN resp'.body ELSE table[i]

C10_OriginalStep ==
    /\ Sent("PATCH", "/students/:studentId")' =>
          IF req'.id \in IdsOf(students)
          THEN /\ Updated(students, students', req'.id, req'.body)
               /\ professors' = professors /\ memberships' = memberships
          ELSE Refused
    /\ Sent("PATCH", "/professors/:professorId")' =>
          IF req'.id \in IdsOf(professors)
          THEN /\ Updated(professors, professors', req'.id, req'.body)
               /\ students' = students /\ memberships' = memberships
          ELSE Refused

\* C10 as stated: an update of a stored id replaces exactly the fields of the
\* payload and is answered 200 with the updated record, whatever the payload; an
\* update of an id that is not stored is answered with an error and changes nothing.
C10_Original == [][C10_OriginalStep]_vars

StudentPatchAccepted(id, body) ==
    /\ DOMAIN body \subseteq {"name", "dateOfBirth", "aadharNumber", "proctorId"}
    /\ "aadharNumber" \in DOMAIN body =>
          ~\E s \in Range(students) : s.id # id /\ s.aadharNumber = body.aadharNumber
    /\ "proctorId" \in DOMAIN body =>
          body.proctorId = NULL \/ body.proctorId \in IdsOf(professors)

ProfessorPatchAccepted(id, body) ==
    /\ DOMAIN body \subseteq {"name", "seniority", "aadharNumber"}
    /\ "aadharNumber" \in DOMAIN body =>
          ~\E q \in Range(professors) : q.id # id /\ q.aadharNumber = body.aadharNumber

C10_AmendedStep ==
    /\ Sent("PATCH", "/students/:studentId")' =>
          IF req'.id \in IdsOf(students) /\ StudentPatchAccepted(req'.id, req'.body)
          THEN /\ Updated(students, students', req'.id, req'.body)
               /\ professors' = professors /\ memberships' = memberships
          ELSE Refused /\ resp'.status = 500
    /\ Sent("PATCH", "/professors/:professorId")' =>
          IF req'.id \in IdsOf(professors) /\ ProfessorPatchAccepted(req'.id, req'.body)
          THEN /\ Updated(professors, professors', req'.id, req'.body)
               /\ students' = students /\ memberships' = memberships
          ELSE Refused /\ resp'.status = 500

\* C10 (amended): an update is not checked against the creation rules; for a stored
\* id and a payload that names only columns of the record, no national id another
\* record of that kind has and no proctor that is not stored, it replaces exactly
\* the fields of the payload, leaves everything else as it was and is answered 200
\* with the updated record; any other update is answered 500 and changes nothing.
C10_Amended == [][C10_AmendedStep]_vars

C10_Witness ==
    /\ Sent("PATCH", "/students/:studentId")
    /\ resp.status = 200
    /\ "aadharNumber" \in DOMAIN req.body
    /\ resp.body.aadharNumber = AadharShort
    /\ Len(students) = 2

====
